---- MODULE Spec2Model ----
(***************************************************************************)
(* A model of semt_py's table annotation and payload composition pipeline: *)
(* ReconciliationManager (reconciliation_manager.py) and ExtensionManager  *)
(* (extension_manager.py), and of the token cache of AuthManager           *)
(* (Auth_manager.py).                                                      *)
(*                                                                         *)
(* Python values are modelled as follows.                                  *)
(*   str            a sequence of one-character strings                    *)
(*   list           a sequence                                             *)
(*   dict           a record/function whose DOMAIN is the set of keys; an  *)
(*                  optional key is a field that may be missing            *)
(*   ordered dict   (columns, rows) [keys |-> insertion order, val |-> f]  *)
(*   None           the record NoneVal                                     *)
(*   number         an integer (the code only compares, min-s and max-es   *)
(*                  scores)                                                *)
(***************************************************************************)
EXTENDS Integers, Sequences, FiniteSets, TLC

VARIABLES
    doc,      \* the table document the caller holds and passes to the next call
    before,   \* the value of the passed-in document when the last call started
    inp,      \* the passed-in document (the caller's object) after the last call
    op,       \* the last call: its name and arguments
    merged,   \* the table the last call's merge stage produced (NoneVal: none)
    request,  \* the request payload the last call built (NoneVal: none built)
    sent,     \* whether the last call posted a request to the external service
    ret,      \* the table the last call returned (NoneVal: none)
    backend,  \* the backend payload the last call returned (NoneVal: none)
    err,      \* the exception the last call raised (NoErr: none)
    nOps,     \* number of calls made so far
    token,    \* AuthManager.token (NoneVal: None)
    expiry,   \* AuthManager.expiry
    now,      \* the clock: what time.time() returns
    authOp,   \* the last get_token call and what it did
    nAuth,    \* number of get_token calls made so far
    nTicks    \* number of times the clock has advanced

tableVars == <<doc, before, inp, op, merged, request, sent, ret, backend, err, nOps>>
authVars == <<token, expiry, now, authOp, nAuth, nTicks>>
vars == <<doc, before, inp, op, merged, request, sent, ret, backend, err, nOps, token, expiry, now, authOp, nAuth, nTicks>>

(***************************************************************************)
(* Bounds of the model.                                                    *)
(***************************************************************************)
MaxOps == 2
MaxItems == 3
MaxAuthOps == 3
MaxTicks == 3

(***************************************************************************)
(* Python helpers.                                                         *)
(***************************************************************************)
NoneVal == [py |-> "None"]
NoErr == "none"

\* dict.get(k, default)
Get(d, k, default) == IF k \in DOMAIN d THEN d[k] ELSE default

\* d[k] = v on a plain dict
Put(d, k, v) == [x \in (DOMAIN d) \cup {k} |-> IF x = k THEN v ELSE d[x]]

\* del d[k]
Del(d, k) == [x \in (DOMAIN d) \ {k} |-> d[x]]

\* mutant: a new key goes first
OPut_mut(d, k, v) ==
    [keys |-> IF k \in DOMAIN d.val THEN d.keys ELSE <<k>> \o d.keys,
     val  |-> Put(d.val, k, v)]

\* d[k] = v on an insertion-ordered dict: a new key goes last, an old key keeps its place
OPut(d, k, v) ==
    [keys |-> IF k \in DOMAIN d.val THEN d.keys ELSE Append(d.keys, k),
     val  |-> Put(d.val, k, v)]

Range(s) == {s[i] : i \in DOMAIN s}

Min(S) == CHOOSE x \in S : \A y \in S : x <= y
Max(S) == CHOOSE x \in S : \A y \in S : x >= y

\* str.startswith(prefix)
StartsWith(s, prefix) ==
    /\ Len(s) >= Len(prefix)
    /\ SubSeq(s, 1, Len(prefix)) = prefix

\* whether sep occurs in s at position i
OccursAt(s, sep, i) ==
    /\ i + Len(sep) - 1 <= Len(s)
    /\ SubSeq(s, i, i + Len(sep) - 1) = sep

\* str.split(sep): the list of the pieces between the non-overlapping occurrences
\* of sep, scanning from the left; `i` is the scan position, `from` the start of
\* the piece being read
RECURSIVE SplitFrom(_, _, _, _)
SplitFrom(s, sep, i, from) ==
    IF i > Len(s) THEN <<SubSeq(s, from, Len(s))>>
    ELSE IF OccursAt(s, sep, i)
         THEN <<SubSeq(s, from, i - 1)>> \o SplitFrom(s, sep, i + Len(sep), i + Len(sep))
         ELSE SplitFrom(s, sep, i + 1, from)

Split(s, sep) == SplitFrom(s, sep, 1, 1)

(***************************************************************************)
(* String literals of the source.                                          *)
(***************************************************************************)
Dollar == <<"$">>
GeorssMarker == <<"g", "e", "o", "r", "s", "s", ":">>
MapsPlacePrefix ==
    <<"h","t","t","p","s",":","/","/","w","w","w",".","g","o","o","g","l","e",
      ".","c","o","m","/","m","a","p","s","/","p","l","a","c","e","/">>
ContextUri ==
    <<"h","t","t","p",":","/","/","w","w","w",".","g","o","o","g","l","e",
      ".","c","o","m","/","m","a","p","s","/","p","l","a","c","e","/">>
NoneColon == <<"N", "o", "n", "e", ":">>
EmptyStr == <<>>

(***************************************************************************)
(* Input data: column names, row ids, service ids, entities.               *)
(***************************************************************************)
ColA == <<"A">>
ColB == <<"B">>
R0 == <<"r", "0">>
R1 == <<"r", "1">>

\* service ids, like the status and kind tags of a column, are only ever compared
\* with the literals of the source: they are kept as atoms ("geonames")

\* entity ids the external service may answer with
IdQ90 == <<"Q", "9", "0">>
IdGeo == GeorssMarker \o <<"1", ",", "2">>
IdGeoTwice == GeorssMarker \o <<"1">> \o GeorssMarker \o <<"2">>
IdInnerGeo == <<"x">> \o GeorssMarker \o <<"1">>

\* entities as the reconciliation service returns them: {id, name, score, match}
\* and optionally type (names are one character long: TLC cannot compare a
\* two-character str with the two-key dict a reshaped name is)
EntParis == [id |-> IdQ90, name |-> <<"P">>, score |-> 2, match |-> TRUE]
EntGeo == [id |-> IdGeo, name |-> <<"G">>, score |-> 3, match |-> FALSE,
           type |-> <<<<"t">>>>]
EntGeoTwice == [id |-> IdGeoTwice, name |-> <<"T">>, score |-> 0, match |-> TRUE]
EntInner == [id |-> IdInnerGeo, name |-> <<"I">>, score |-> 1, match |-> FALSE]

(***************************************************************************)
(* The table document: {table, columns, rows}.                             *)
(***************************************************************************)
\* the id of the cell at (row_id, column_name): f"{row_id}${column_name}"
CellId(row_id, column_name) == row_id \o Dollar \o column_name

\* the cells of every row of the document, as a set of <<row id, column id>>
CellKeys(d) ==
    UNION {{<<r, c>> : c \in DOMAIN d.rows.val[r].cells} : r \in DOMAIN d.rows.val}

CellAt(d, rc) == d.rows.val[rc[1]].cells[rc[2]]

\* mutant: any cell that carries an annotation record counts as annotated
IsAnnotated_mut(cell) == "annotationMeta" \in DOMAIN cell

\* cell.get('annotationMeta', {}).get('annotated', False)
IsAnnotated(cell) == Get(Get(cell, "annotationMeta", <<>>), "annotated", FALSE)

(***************************************************************************)
(* BackendPayloadComposer: _create_backend_payload (both managers).        *)
(***************************************************************************)
\* the cells the generator expressions visit: every cell of every row
AnnotatedCells(d) == {rc \in CellKeys(d) : IsAnnotated(CellAt(d, rc))}

\* sum(1 for row ... for cell ... if annotated): the rows are walked in order and
\* each row's cells are counted
RECURSIVE CountAnnotated(_, _)
CountAnnotated(d, i) ==
    IF i > Len(d.rows.keys) THEN 0
    ELSE Cardinality({c \in DOMAIN d.rows.val[d.rows.keys[i]].cells :
                         IsAnnotated(d.rows.val[d.rows.keys[i]].cells[c])})
         + CountAnnotated(d, i + 1)

\* float('inf'), the default of .get('lowestScore', float('inf')): a number above
\* every score of the model
Inf == 999

\* all_scores, as the set of its values (only min and max are taken of it)
AllScores(d) ==
    {Get(Get(CellAt(d, rc), "annotationMeta", <<>>), "lowestScore", Inf) :
        rc \in AnnotatedCells(d)}

MinMetaScore(d) == IF AllScores(d) # {} THEN Min(AllScores(d)) ELSE 0
\* mutant: the two defaults are the same
MaxMetaScore_mut(d) == IF AllScores(d) # {} THEN Max(AllScores(d)) ELSE 0

MaxMetaScore(d) == IF AllScores(d) # {} THEN Max(AllScores(d)) ELSE 1

_create_backend_payload(d) ==
    [tableInstance |->
        [id |-> d.table.id,
         nCellsReconciliated |-> CountAnnotated(d, 1),
         lastModifiedDate |-> d.table.lastModifiedDate,
         minMetaScore |-> MinMetaScore(d),
         maxMetaScore |-> MaxMetaScore(d)],
     columns |-> [byId |-> d.columns.val, allIds |-> d.columns.keys],
     rows |-> [byId |-> d.rows.val, allIds |-> d.rows.keys]]

(***************************************************************************)
(* PayloadRestructurer: _restructure_payload.                              *)
(***************************************************************************)
create_google_maps_url(id_string) ==
    IF StartsWith(id_string, GeorssMarker)
    THEN LET parts == Split(id_string, GeorssMarker)
             coords == parts[Len(parts)]
         IN  MapsPlacePrefix \o coords
    ELSE EmptyStr

\* [col_key for col_key, col in payload['columns'].items()
\*  if col.get('status') == 'reconciliated'], as a set
reconciliated_columns(payload) ==
    {k \in DOMAIN payload.columns.val :
        Get(payload.columns.val[k], "status", "") = "reconciliated"}

\* new_entity of the column loop
NewColumnEntity(item) ==
    [id |-> item.id,
     name |-> [value |-> item.name, uri |-> create_google_maps_url(item.id)],
     score |-> Get(item, "score", 0),
     match |-> Get(item, "match", TRUE),
     type |-> Get(item, "type", <<>>)]

\* new_item of the cell loop
NewCellEntity(item) ==
    [id |-> item.id,
     name |-> [value |-> item.name, uri |-> create_google_maps_url(item.id)],
     feature |-> Get(item, "feature", <<>>),
     score |-> Get(item, "score", 0),
     match |-> Get(item, "match", TRUE),
     type |-> Get(item, "type", <<>>)]

\* mutant: the entity list is built back to front
NewColumnMetadata_mut(column) ==
    LET old == Get(column, "metadata", <<>>)
    IN  <<[id |-> NoneColon,
           match |-> TRUE,
           score |-> 0,
           name |-> [value |-> EmptyStr, uri |-> EmptyStr],
           entity |-> [i \in DOMAIN old |-> NewColumnEntity(old[Len(old) + 1 - i])]]>>

\* new_metadata: one wrapper whose 'entity' list holds the reshaped entries
NewColumnMetadata(column) ==
    LET old == Get(column, "metadata", <<>>)
    IN  <<[id |-> NoneColon,
           match |-> TRUE,
           score |-> 0,
           name |-> [value |-> EmptyStr, uri |-> EmptyStr],
           entity |-> [i \in DOMAIN old |-> NewColumnEntity(old[i])]]>>

\* mutant: the scores are those of the column's own candidate list
ColumnScores_mut(payload, column_key) ==
    {Get(Get(payload.columns.val[column_key], "metadata", <<>>)[i], "score", 0) :
        i \in DOMAIN Get(payload.columns.val[column_key], "metadata", <<>>)}

\* scores: the first-metadata score of every row's cell of the column that has
\* metadata (only min and max are taken of it)
ColumnScores(payload, column_key) ==
    {Get(payload.rows.val[r].cells[column_key].metadata[1], "score", 0) :
        r \in {r \in DOMAIN payload.rows.val :
                 /\ column_key \in DOMAIN payload.rows.val[r].cells
                 /\ "metadata" \in DOMAIN payload.rows.val[r].cells[column_key]
                 /\ Len(payload.rows.val[r].cells[column_key].metadata) > 0}}

RestructureColumn(payload, column_key) ==
    LET column == payload.columns.val[column_key]
        scores == ColumnScores(payload, column_key)
        c1 == Put(column, "metadata", NewColumnMetadata(column))
        c2 == Put(c1, "annotationMeta",
                  [annotated |-> TRUE,
                   match |-> [value |-> TRUE, reason |-> "reconciliator"],
                   lowestScore |-> IF scores # {} THEN Min(scores) ELSE 0,
                   highestScore |-> IF scores # {} THEN Max(scores) ELSE 0])
    IN  IF "kind" \in DOMAIN c2 THEN Del(c2, "kind") ELSE c2

\* mutant: the cell list gets the unmatched placeholder in front, as the column's
RestructureCell_mut(cell) ==
    LET c1 == IF "metadata" \in DOMAIN cell
              THEN Put(cell, "metadata",
                       <<[id |-> NoneColon, match |-> TRUE, score |-> 0,
                          name |-> [value |-> EmptyStr, uri |-> EmptyStr]]>>
                       \o [i \in DOMAIN cell.metadata |-> NewCellEntity(cell.metadata[i])])
              ELSE cell
    IN  IF "annotationMeta" \in DOMAIN c1
        THEN LET a1 == Put(c1.annotationMeta, "match",
                           [value |-> TRUE, reason |-> "reconciliator"])
                 a2 == Put(Put(a1, "lowestScore", Get(c1.metadata[1], "score", 0)),
                           "highestScore", Get(c1.metadata[1], "score", 0))
             IN  Put(c1, "annotationMeta", a2)
        ELSE c1

RestructureCell(cell) ==
    LET c1 == IF "metadata" \in DOMAIN cell
              THEN Put(cell, "metadata",
                       [i \in DOMAIN cell.metadata |-> NewCellEntity(cell.metadata[i])])
              ELSE cell
    IN  IF "annotationMeta" \in DOMAIN c1
        THEN LET a1 == Put(c1.annotationMeta, "match",
                           [value |-> TRUE, reason |-> "reconciliator"])
                 a2 == IF "metadata" \in DOMAIN c1 /\ Len(c1.metadata) > 0
                       THEN Put(Put(a1, "lowestScore", Get(c1.metadata[1], "score", 0)),
                                "highestScore", Get(c1.metadata[1], "score", 0))
                       ELSE a1
             IN  Put(c1, "annotationMeta", a2)
        ELSE c1

\* item['id'] or item['name'] of a metadata entry missing: KeyError
LacksIdOrName(metadata) ==
    \E i \in DOMAIN metadata : ~({"id", "name"} \subseteq DOMAIN metadata[i])

RestructureRaises(payload) ==
    \/ \E k \in reconciliated_columns(payload) :
          LacksIdOrName(Get(payload.columns.val[k], "metadata", <<>>))
    \/ \E rc \in CellKeys(payload) :
          /\ rc[2] \in reconciliated_columns(payload)
          /\ LacksIdOrName(Get(CellAt(payload, rc), "metadata", <<>>))

\* the payload after the pass (it is changed in place and returned)
_restructure_payload(payload) ==
    LET rec == reconciliated_columns(payload)
    IN  [payload EXCEPT
            !.columns.val = [k \in DOMAIN payload.columns.val |->
                IF k \in rec THEN RestructureColumn(payload, k)
                ELSE payload.columns.val[k]],
            !.rows.val = [r \in DOMAIN payload.rows.val |->
                [payload.rows.val[r] EXCEPT !.cells =
                    [c \in DOMAIN payload.rows.val[r].cells |->
                        IF c \in rec
                        THEN RestructureCell(payload.rows.val[r].cells[c])
                        ELSE payload.rows.val[r].cells[c]]]]]

(***************************************************************************)
(* RequestBuilder, reconciliation: _prepare_input_data.                    *)
(* A function that may raise yields [err |-> <exception>, val |-> <value>]. *)
(***************************************************************************)
Ok(v) == [err |-> NoErr, val |-> v]
Raise(e) == [err |-> e, val |-> NoneVal]

TwoPartServices == {"geocodingHere", "geocodingGeonames"}

\* row_data['cells'].get(column, {}).get('label', '')
OptionalLabel(row_data, column) ==
    Get(Get(row_data.cells, column, <<>>), "label", EmptyStr)

\* the loop over original_input['rows'].items(), from the i-th row on
RECURSIVE PrepareRows(_, _, _, _, _, _)
PrepareRows(original_input, column_name, reconciliator_id, optional_columns, i, input_data) ==
    IF i > Len(original_input.rows.keys) THEN Ok(input_data)
    ELSE LET row_id == original_input.rows.keys[i]
             row_data == original_input.rows.val[row_id]
         IN  IF column_name \notin DOMAIN row_data.cells THEN Raise("KeyError")
             ELSE LET withItem == [input_data EXCEPT !.items =
                          Append(@, [id |-> CellId(row_id, column_name),
                                     label |-> row_data.cells[column_name].label])]
                  IN  IF reconciliator_id \in TwoPartServices
                      THEN IF Len(optional_columns) < 2 THEN Raise("IndexError")
                           ELSE PrepareRows(original_input, column_name, reconciliator_id,
                                    optional_columns, i + 1,
                                    [withItem EXCEPT
                                        !.secondPart = Put(@, row_id,
                                            <<OptionalLabel(row_data, optional_columns[1]),
                                              <<>>, optional_columns[1]>>),
                                        !.thirdPart = Put(@, row_id,
                                            <<OptionalLabel(row_data, optional_columns[2]),
                                              <<>>, optional_columns[2]>>)])
                      ELSE PrepareRows(original_input, column_name, reconciliator_id,
                               optional_columns, i + 1, withItem)

\* mutant: the items list does not start with the column itself
_prepare_input_data_mut(original_input, column_name, reconciliator_id, optional_columns) ==
    PrepareRows(original_input, column_name, reconciliator_id, optional_columns, 1,
        [serviceId |-> reconciliator_id,
         items |-> <<>>,
         secondPart |-> <<>>,
         thirdPart |-> <<>>])

_prepare_input_data(original_input, column_name, reconciliator_id, optional_columns) ==
    PrepareRows(original_input, column_name, reconciliator_id, optional_columns, 1,
        [serviceId |-> reconciliator_id,
         items |-> <<[id |-> column_name, label |-> column_name]>>,
         secondPart |-> <<>>,
         thirdPart |-> <<>>])

(***************************************************************************)
(* ResponseMerger, reconciliation: _compose_reconciled_table.              *)
(***************************************************************************)
\* datetime.now() formatted '%Y-%m-%dT%H:%M:%S.%f'[:-3] + 'Z': the stamp of the call
NowStamp == <<"n", "o", "w">>

\* mutant: an item whose id does not split in two, or names no row, is skipped
MergeItem_mut(st, item) ==
    LET parts == Split(item.id, Dollar)
    IN  IF Len(parts) # 2 THEN Ok(st)
        ELSE IF parts[1] \notin DOMAIN st.payload.rows.val THEN Ok(st)
        ELSE IF parts[2] \notin DOMAIN st.payload.rows.val[parts[1]].cells
             THEN Raise("KeyError")
        ELSE IF Len(item.metadata) = 0 THEN Raise("IndexError")
        ELSE Ok([payload |-> [st.payload EXCEPT
                        !.rows.val[parts[1]].cells[parts[2]] =
                            Put(Put(@, "metadata", <<item.metadata[1]>>),
                                "annotationMeta",
                                [annotated |-> TRUE,
                                 match |-> [value |-> item.metadata[1].match],
                                 lowestScore |-> item.metadata[1].score,
                                 highestScore |-> item.metadata[1].score])],
                 n |-> st.n + 1])

\* mutant: the cell keeps every candidate of the item, not the first only
MergeItem_all(st, item) ==
    LET parts == Split(item.id, Dollar)
    IN  IF Len(parts) # 2 THEN Raise("ValueError")
        ELSE IF parts[1] \notin DOMAIN st.payload.rows.val THEN Raise("KeyError")
        ELSE IF parts[2] \notin DOMAIN st.payload.rows.val[parts[1]].cells
             THEN Raise("KeyError")
        ELSE IF Len(item.metadata) = 0 THEN Raise("IndexError")
        ELSE Ok([payload |-> [st.payload EXCEPT
                        !.rows.val[parts[1]].cells[parts[2]] =
                            Put(Put(@, "metadata", item.metadata),
                                "annotationMeta",
                                [annotated |-> TRUE,
                                 match |-> [value |-> item.metadata[1].match],
                                 lowestScore |-> item.metadata[1].score,
                                 highestScore |-> item.metadata[1].score])],
                 n |-> st.n + 1])

\* the body of the loop for one item whose id is not the column name; `st` is
\* [payload, n]: final_payload and the nCellsReconciliated counter
MergeItem(st, item) ==
    LET parts == Split(item.id, Dollar)
    IN  IF Len(parts) # 2 THEN Raise("ValueError")
        ELSE LET row_id == parts[1]
                 cell_id == parts[2]
             IN  IF row_id \notin DOMAIN st.payload.rows.val THEN Raise("KeyError")
                 ELSE IF cell_id \notin DOMAIN st.payload.rows.val[row_id].cells
                      THEN Raise("KeyError")
                 ELSE IF Len(item.metadata) = 0 THEN Raise("IndexError")
                 ELSE IF ~({"match", "score"} \subseteq DOMAIN item.metadata[1])
                      THEN Raise("KeyError")
                 ELSE LET metadata == item.metadata[1]
                          cell == st.payload.rows.val[row_id].cells[cell_id]
                          c1 == Put(cell, "metadata", <<metadata>>)
                          c2 == Put(c1, "annotationMeta",
                                    [annotated |-> TRUE,
                                     match |-> [value |-> metadata.match],
                                     lowestScore |-> metadata.score,
                                     highestScore |-> metadata.score])
                      IN  Ok([payload |-> [st.payload EXCEPT
                                     !.rows.val[row_id].cells[cell_id] = c2],
                              n |-> st.n + 1])

\* for item in reconciliation_output, from the i-th item on
RECURSIVE MergeItems(_, _, _, _)
MergeItems(st, reconciliation_output, column_name, i) ==
    IF i > Len(reconciliation_output) THEN Ok(st)
    ELSE IF reconciliation_output[i].id # column_name
         THEN LET r == MergeItem(st, reconciliation_output[i])
              IN  IF r.err # NoErr THEN r
                  ELSE MergeItems(r.val, reconciliation_output, column_name, i + 1)
         ELSE MergeItems(st, reconciliation_output, column_name, i + 1)

\* next(item for item in reconciliation_output if item['id'] == column_name)
ColumnItems(reconciliation_output, column_name) ==
    {i \in DOMAIN reconciliation_output : reconciliation_output[i].id = column_name}

\* mutant: the counts of the context include the column-level item
MergeColumn_mut(column, reconciliation_output, column_name) ==
    LET first == Min(ColumnItems(reconciliation_output, column_name))
        c1 == Put(column, "status", "reconciliated")
        c2 == Put(c1, "context",
                  [georss |-> [uri |-> ContextUri,
                               total |-> Len(reconciliation_output),
                               reconciliated |-> Len(reconciliation_output)]])
        c3 == Put(c2, "kind", "entity")
        c4 == Put(c3, "annotationMeta",
                  [annotated |-> TRUE,
                   match |-> [value |-> TRUE],
                   lowestScore |-> 1,
                   highestScore |-> 1])
    IN  Put(c4, "metadata", reconciliation_output[first].metadata)

\* the column as lines 332-349 leave it
MergeColumn(column, reconciliation_output, column_name) ==
    LET first == Min(ColumnItems(reconciliation_output, column_name))
        c1 == Put(column, "status", "reconciliated")
        c2 == Put(c1, "context",
                  [georss |-> [uri |-> ContextUri,
                               total |-> Len(reconciliation_output) - 1,
                               reconciliated |-> Len(reconciliation_output) - 1]])
        c3 == Put(c2, "kind", "entity")
        c4 == Put(c3, "annotationMeta",
                  [annotated |-> TRUE,
                   match |-> [value |-> TRUE],
                   lowestScore |-> 1,
                   highestScore |-> 1])
    IN  Put(c4, "metadata", reconciliation_output[first].metadata)

\* mutant: every row of the table is counted, answered or not
MergedCount_mut(st) == Len(st.payload.rows.keys)

\* the value the counter is written from after the loop
MergedCount(st) == st.n

\* works on a deep copy of original_input: the caller's document is not touched
_compose_reconciled_table(original_input, reconciliation_output, column_name) ==
    IF column_name \notin DOMAIN original_input.columns.val THEN Raise("KeyError")
    ELSE IF ColumnItems(reconciliation_output, column_name) = {} THEN Raise("StopIteration")
    ELSE LET stamped == [original_input EXCEPT !.table.lastModifiedDate = NowStamp]
             withColumn == [stamped EXCEPT !.columns.val[column_name] =
                               MergeColumn(@, reconciliation_output, column_name)]
             r == MergeItems([payload |-> withColumn, n |-> 0],
                             reconciliation_output, column_name, 1)
         IN  IF r.err # NoErr THEN r
             ELSE Ok([r.val.payload EXCEPT !.table.nCellsReconciliated = MergedCount(r.val)])

(***************************************************************************)
(* RequestBuilder, extension: _prepare_input_data_reconciled and           *)
(* _prepare_input_data_meteo.                                              *)
(***************************************************************************)
\* 'metadata' in cell and cell['metadata']
HasMetadata(cell) == "metadata" \in DOMAIN cell /\ Len(cell.metadata) > 0

\* the rows the items comprehension keeps
RowsWithItems(table, reconciliated_column_name) ==
    {r \in DOMAIN table.rows.val :
        HasMetadata(table.rows.val[r].cells[reconciliated_column_name])}

\* mutant: a row without metadata gets a default entry instead of none
ReconciledItems_mut(table, reconciliated_column_name) ==
    [r \in DOMAIN table.rows.val |->
        IF HasMetadata(table.rows.val[r].cells[reconciliated_column_name])
        THEN table.rows.val[r].cells[reconciliated_column_name].metadata[1].id
        ELSE EmptyStr]

\* the inner dict of items: row id -> the id of the first metadata entity
ReconciledItems(table, reconciliated_column_name) ==
    [r \in RowsWithItems(table, reconciliated_column_name) |->
        table.rows.val[r].cells[reconciliated_column_name].metadata[1].id]

_prepare_input_data_reconciled(table, reconciliated_column_name, properties, id_extender) ==
    IF \E r \in DOMAIN table.rows.val :
          reconciliated_column_name \notin DOMAIN table.rows.val[r].cells
    THEN Raise("KeyError")
    ELSE IF \E r \in RowsWithItems(table, reconciliated_column_name) :
               "id" \notin DOMAIN table.rows.val[r].cells[reconciliated_column_name].metadata[1]
    THEN Raise("KeyError")
    ELSE Ok([serviceId |-> id_extender,
             column |-> [r \in DOMAIN table.rows.val |->
                 <<table.rows.val[r].cells[reconciliated_column_name].label,
                   Get(table.rows.val[r].cells[reconciliated_column_name], "metadata", <<>>),
                   reconciliated_column_name>>],
             property |-> properties,
             items |-> [c \in {reconciliated_column_name} |->
                           ReconciledItems(table, reconciliated_column_name)]])

\* what row['cells'][name]['metadata'][0]['id'] raises on one row
FirstIdError(row, name) ==
    IF name \notin DOMAIN row.cells THEN "KeyError"
    ELSE IF "metadata" \notin DOMAIN row.cells[name] THEN "KeyError"
    ELSE IF Len(row.cells[name].metadata) = 0 THEN "IndexError"
    ELSE IF "id" \notin DOMAIN row.cells[name].metadata[1] THEN "KeyError"
    ELSE NoErr

\* None where a str is expected (no str is this one-element sequence: the
\* elements of a str are single characters)
NoneStr == <<"None">>

\* a value that `if x` takes as true: neither None nor ''
Truthy(x) == x # NoneStr /\ x # EmptyStr

_prepare_input_data_meteo(table, reconciliated_column_name, id_extender, properties, date_column_name, decimal_format) ==
    LET keys == table.rows.keys
        noDate == {i \in DOMAIN keys : date_column_name \notin DOMAIN table.rows.val[keys[i]].cells}
        noId == {i \in DOMAIN keys :
                    FirstIdError(table.rows.val[keys[i]], reconciliated_column_name) # NoErr}
    IN  IF Truthy(date_column_name) /\ noDate # {} THEN Raise("KeyError")
        ELSE IF noId # {}
        THEN Raise(FirstIdError(table.rows.val[keys[Min(noId)]], reconciliated_column_name))
        ELSE Ok([serviceId |-> id_extender,
                 dates |-> IF Truthy(date_column_name)
                           THEN [r \in DOMAIN table.rows.val |->
                                    <<table.rows.val[r].cells[date_column_name].label,
                                      <<>>, date_column_name>>]
                           ELSE <<>>,
                 decimalFormat |-> IF Truthy(decimal_format) THEN <<decimal_format>> ELSE <<>>,
                 items |-> [c \in {reconciliated_column_name} |->
                     [r \in DOMAIN table.rows.val |->
                         table.rows.val[r].cells[reconciliated_column_name].metadata[1].id]],
                 weatherParams |-> IF Truthy(date_column_name) THEN properties ELSE <<>>])

(***************************************************************************)
(* ResponseMerger, extension: _compose_extension_table. The table is       *)
(* changed in place: a result [err, val] carries in val the table as the   *)
(* loop left it, also when a KeyError ends the loop early.                 *)
(***************************************************************************)
\* mutant: the new column is labelled with its name, not the answer's label
NewExtendedColumn_mut(column_name, column_data) ==
    [id |-> column_name,
     label |-> column_name,
     status |-> "extended",
     context |-> <<>>,
     metadata |-> <<>>,
     kind |-> "extended",
     annotationMeta |-> <<>>]

NewExtendedColumn(column_name, column_data) ==
    [id |-> column_name,
     label |-> column_data.label,
     status |-> "extended",
     context |-> <<>>,
     metadata |-> <<>>,
     kind |-> "extended",
     annotationMeta |-> <<>>]

\* mutant: the cell id is written column first
NewExtendedCell_mut(row_id, column_name, cell_data) ==
    [id |-> CellId(column_name, row_id),
     label |-> cell_data.label,
     metadata |-> cell_data.metadata]

NewExtendedCell(row_id, column_name, cell_data) ==
    [id |-> CellId(row_id, column_name),
     label |-> cell_data.label,
     metadata |-> cell_data.metadata]

\* for row_id, cell_data in column_data['cells'].items(), from the j-th cell on
RECURSIVE ExtendCells(_, _, _, _)
ExtendCells(table, column_name, cells, j) ==
    IF j > Len(cells.keys) THEN [err |-> NoErr, val |-> table]
    ELSE LET row_id == cells.keys[j]
         IN  IF row_id \notin DOMAIN table.rows.val
             THEN [err |-> "KeyError", val |-> table]
             ELSE ExtendCells(
                      [table EXCEPT !.rows.val[row_id].cells =
                          Put(@, column_name,
                              NewExtendedCell(row_id, column_name, cells.val[row_id]))],
                      column_name, cells, j + 1)

\* for column_name, column_data in extension_response['columns'].items(), from
\* the i-th column on
RECURSIVE ExtendColumns(_, _, _)
ExtendColumns(table, columns, i) ==
    IF i > Len(columns.keys) THEN [err |-> NoErr, val |-> table]
    ELSE LET column_name == columns.keys[i]
             column_data == columns.val[column_name]
             withColumn == [table EXCEPT !.columns =
                               OPut(@, column_name,
                                    NewExtendedColumn(column_name, column_data))]
             r == ExtendCells(withColumn, column_name, column_data.cells, 1)
         IN  IF r.err # NoErr THEN r ELSE ExtendColumns(r.val, columns, i + 1)

_compose_extension_table(table, extension_response) ==
    ExtendColumns(table, extension_response.columns, 1)

(***************************************************************************)
(* Orchestrator: reconcile and extend_column. The outcome of the external  *)
(* call is an input: TransportError (the POST failed) or the parsed body.  *)
(* A call yields the request built, whether it was posted, the table the   *)
(* merge stage produced, whether the restructure stage ran, the passed-in  *)
(* document after the call, the two results and the exception raised.      *)
(***************************************************************************)
TransportError == [failed |-> TRUE]
Body(b) == [failed |-> FALSE, body |-> b]

\* mutant: a call that produced no table hands back the table it was given
CallResult_mut(req, wasSent, mergeOut, didRestructure, after, table, payload, e) ==
    [request |-> req, sent |-> wasSent, merged |-> mergeOut,
     restructured |-> didRestructure, inp |-> after,
     ret |-> IF table = NoneVal THEN after ELSE table,
     backend |-> payload, err |-> e]

CallResult(req, wasSent, mergeOut, didRestructure, after, table, payload, e) ==
    [request |-> req, sent |-> wasSent, merged |-> mergeOut,
     restructured |-> didRestructure, inp |-> after, ret |-> table,
     backend |-> payload, err |-> e]

\* mutant: one more reconciliator id is accepted
SupportedReconciliators_mut == {"geocodingHere", "geocodingGeonames", "geonames", "wikidata"}

SupportedReconciliators == {"geocodingHere", "geocodingGeonames", "geonames"}

\* mutant: the backend payload is composed before the restructure pass
reconcile_mut(table_data, column_name, reconciliator_id, optional_columns, outcome) ==
    IF reconciliator_id \notin SupportedReconciliators
    THEN CallResult(NoneVal, FALSE, NoneVal, FALSE, table_data, NoneVal, NoneVal,
                    "ValueError")
    ELSE LET input_data == _prepare_input_data(table_data, column_name, reconciliator_id,
                                               optional_columns)
         IN  IF input_data.err # NoErr
             THEN CallResult(NoneVal, FALSE, NoneVal, FALSE, table_data, NoneVal, NoneVal,
                             input_data.err)
             ELSE IF outcome.failed \/ Len(outcome.body) = 0
             THEN CallResult(input_data.val, TRUE, NoneVal, FALSE, table_data, NoneVal,
                             NoneVal, NoErr)
             ELSE LET composed == _compose_reconciled_table(table_data, outcome.body,
                                                          column_name)
                  IN  IF composed.err # NoErr
                      THEN CallResult(input_data.val, TRUE, NoneVal, FALSE, table_data,
                                      NoneVal, NoneVal, composed.err)
                      ELSE IF RestructureRaises(composed.val)
                      THEN CallResult(input_data.val, TRUE, composed.val, TRUE, table_data,
                                      NoneVal, NoneVal, "KeyError")
                      ELSE CallResult(input_data.val, TRUE, composed.val, TRUE,
                                      table_data, _restructure_payload(composed.val),
                                      _create_backend_payload(composed.val), NoErr)

reconcile(table_data, column_name, reconciliator_id, optional_columns, outcome) ==
    IF reconciliator_id \notin SupportedReconciliators
    THEN CallResult(NoneVal, FALSE, NoneVal, FALSE, table_data, NoneVal, NoneVal,
                    "ValueError")
    ELSE LET input_data == _prepare_input_data(table_data, column_name, reconciliator_id,
                                               optional_columns)
         IN  IF input_data.err # NoErr
             THEN CallResult(NoneVal, FALSE, NoneVal, FALSE, table_data, NoneVal, NoneVal,
                             input_data.err)
             \* _send_reconciliation_request catches the RequestException: None;
             \* `if response_data` also fails on an empty list
             ELSE IF outcome.failed \/ Len(outcome.body) = 0
             THEN CallResult(input_data.val, TRUE, NoneVal, FALSE, table_data, NoneVal,
                             NoneVal, NoErr)
             ELSE LET composed == _compose_reconciled_table(table_data, outcome.body,
                                                          column_name)
                  IN  IF composed.err # NoErr
                      THEN CallResult(input_data.val, TRUE, NoneVal, FALSE, table_data,
                                      NoneVal, NoneVal, composed.err)
                      ELSE IF RestructureRaises(composed.val)
                      THEN CallResult(input_data.val, TRUE, composed.val, TRUE, table_data,
                                      NoneVal, NoneVal, "KeyError")
                      ELSE LET final_payload == _restructure_payload(composed.val)
                           IN  CallResult(input_data.val, TRUE, composed.val, TRUE,
                                          table_data, final_payload,
                                          _create_backend_payload(final_payload), NoErr)

\* mutant: only date_column_name is required of the time-indexed extender
ExtensionInput_mut(table, column_name, extender_id, properties, other_params) ==
    IF extender_id = "reconciledColumnExt"
    THEN _prepare_input_data_reconciled(table, column_name, properties, extender_id)
    ELSE IF extender_id = "meteoPropertiesOpenMeteo"
    THEN LET date_column_name == Get(other_params, "date_column_name", NoneStr)
             decimal_format == Get(other_params, "decimal_format", NoneStr)
         IN  IF ~Truthy(date_column_name)
             THEN Raise("ValueError")
             ELSE _prepare_input_data_meteo(table, column_name, extender_id, properties,
                                            date_column_name, decimal_format)
    ELSE Raise("ValueError")

\* the request of extend_column's dispatch on extender_id
ExtensionInput(table, column_name, extender_id, properties, other_params) ==
    IF extender_id = "reconciledColumnExt"
    THEN _prepare_input_data_reconciled(table, column_name, properties, extender_id)
    ELSE IF extender_id = "meteoPropertiesOpenMeteo"
    THEN LET date_column_name == Get(other_params, "date_column_name", NoneStr)
             decimal_format == Get(other_params, "decimal_format", NoneStr)
         IN  IF ~Truthy(date_column_name) \/ ~Truthy(decimal_format)
             THEN Raise("ValueError")
             ELSE _prepare_input_data_meteo(table, column_name, extender_id, properties,
                                            date_column_name, decimal_format)
    ELSE Raise("ValueError")

\* other_params = other_params or {}: None is modelled as the empty dict. The
\* merge changes `table` itself, which is also what is returned.
extend_column(table, column_name, extender_id, properties, other_params, outcome) ==
    LET input_data == ExtensionInput(table, column_name, extender_id, properties,
                                     other_params)
    IN  IF input_data.err # NoErr
        THEN CallResult(NoneVal, FALSE, NoneVal, FALSE, table, NoneVal, NoneVal,
                        input_data.err)
        \* _send_extension_request re-raises
        ELSE IF outcome.failed
        THEN CallResult(input_data.val, TRUE, NoneVal, FALSE, table, NoneVal, NoneVal,
                        "RequestException")
        ELSE LET extended == _compose_extension_table(table, outcome.body)
             IN  IF extended.err # NoErr
                 THEN CallResult(input_data.val, TRUE, NoneVal, FALSE, extended.val,
                                 NoneVal, NoneVal, extended.err)
                 ELSE CallResult(input_data.val, TRUE, extended.val, FALSE, extended.val,
                                 extended.val, _create_backend_payload(extended.val), NoErr)

(***************************************************************************)
(* The documents, calls and service answers the model draws from.          *)
(***************************************************************************)
Label(r, c) == <<"L">> \o c \o r

\* an annotation record of a cell the backend holds as not annotated
Unannotated ==
    [annotated |-> FALSE, match |-> [value |-> FALSE], lowestScore |-> 0,
     highestScore |-> 0]

InitCell(r, c, withRecord) ==
    IF withRecord
    THEN [id |-> CellId(r, c), label |-> Label(r, c), metadata |-> <<>>,
          annotationMeta |-> Unannotated]
    ELSE [id |-> CellId(r, c), label |-> Label(r, c), metadata |-> <<>>]

\* a table as loaded from the backend: two columns, nothing reconciled yet
InitTable(rowKeys, withRecord) ==
    [table |-> [id |-> <<"t">>, nCellsReconciliated |-> 0, minMetaScore |-> 0,
                maxMetaScore |-> 1, lastModifiedDate |-> <<"t", "0">>],
     columns |-> [keys |-> <<ColA, ColB>>,
                  val |-> [c \in {ColA, ColB} |->
                      [id |-> c, label |-> c, status |-> "empty", context |-> <<>>,
                       metadata |-> <<>>, annotationMeta |-> <<>>]]],
     rows |-> [keys |-> rowKeys,
               val |-> [r \in Range(rowKeys) |->
                   [id |-> r,
                    cells |-> [c \in {ColA, ColB} |-> InitCell(r, c, withRecord)]]]]]

\* two rows in either insertion order, and a table that has no row yet
InitTables ==
    {InitTable(<<R0, R1>>, FALSE), InitTable(<<R1, R0>>, TRUE), InitTable(<<>>, FALSE)}

\* reconciliation answers: the column-level item and cell-level items
ColumnItem(c) == [id |-> c, metadata |-> <<EntGeo, EntGeoTwice, EntInner>>]
EmptyColumnItem(c) == [id |-> c, metadata |-> <<>>]
CellItem(r, c, ents) == [id |-> CellId(r, c), metadata |-> ents]

\* a row id no table has
R9 == <<"r", "9">>

\* answers that do not follow the wire contract after a well-formed first cell
\* item: an id without '$', an id with two '$', a row the table does not have
MalformedOutputs(c) ==
    {<<ColumnItem(c), CellItem(R0, c, <<EntParis>>),
       [id |-> R1 \o c, metadata |-> <<EntParis>>]>>,
     <<ColumnItem(c), CellItem(R0, c, <<EntParis>>),
       [id |-> CellId(R1, c) \o Dollar \o <<"x">>, metadata |-> <<EntParis>>]>>,
     <<ColumnItem(c), CellItem(R0, c, <<EntParis>>), CellItem(R9, c, <<EntParis>>)>>}

CellItemPool(c) ==
    {CellItem(R0, c, <<EntParis>>),
     CellItem(R1, c, <<EntGeo, EntParis>>),
     CellItem(R0, c, <<EntGeoTwice>>)}

SeqsUpTo(S, n) == UNION {[1..k -> S] : k \in 0..n}

\* at most MaxItems items: the column item, then cell items (a row may be
\* missing, a cell may be answered twice); and answers with the column item
\* empty, last or absent, and the empty answer
ReconciliationOutputs(c) ==
    {<<ColumnItem(c)>> \o s : s \in SeqsUpTo(CellItemPool(c), MaxItems - 1)}
    \cup {<<EmptyColumnItem(c), CellItem(R0, c, <<EntParis>>)>>,
          <<CellItem(R0, c, <<EntParis>>), ColumnItem(c)>>,
          <<CellItem(R0, c, <<EntParis>>)>>,
          <<>>}
    \cup MalformedOutputs(c)

\* the second column is answered in fewer ways
SecondOutputs(c) ==
    {<<ColumnItem(c), CellItem(R0, c, <<EntInner>>)>>,
     <<ColumnItem(c), CellItem(R1, c, <<EntParis>>), CellItem(R0, c, <<EntGeo>>)>>}

ReconcileCalls ==
    {[column_name |-> ColA, reconciliator_id |-> "geonames", optional_columns |-> <<>>,
      outcome |-> Body(o)] : o \in ReconciliationOutputs(ColA)}
    \cup {[column_name |-> ColB, reconciliator_id |-> "geonames",
           optional_columns |-> <<>>, outcome |-> Body(o)] : o \in SecondOutputs(ColB)}
    \cup {[column_name |-> ColA, reconciliator_id |-> "geocodingHere",
           optional_columns |-> oc, outcome |-> o] :
             oc \in {<<ColB, <<"Z">>>>, <<ColB>>},
             o \in {TransportError,
                    Body(<<ColumnItem(ColA), CellItem(R1, ColA, <<EntParis>>)>>)}}
    \cup {[column_name |-> ColB, reconciliator_id |-> "wikidata",
           optional_columns |-> <<>>, outcome |-> TransportError],
          [column_name |-> <<"Z">>, reconciliator_id |-> "geonames",
           optional_columns |-> <<>>, outcome |-> TransportError]}

\* extension answers: {columns: {name: {label, cells: {row: {label, metadata}}}}}
ColN == <<"N">>
ColM == <<"M">>
ExtEntity == [id |-> IdQ90, name |-> <<"P">>]

ExtCells(rowKeys, metadata) ==
    [keys |-> rowKeys,
     val |-> [r \in Range(rowKeys) |-> [label |-> <<"x">> \o r, metadata |-> metadata]]]

ExtResponse(names, rowKeys, metadata) ==
    [columns |-> [keys |-> names,
                  val |-> [n \in Range(names) |->
                      [label |-> <<"l">> \o n, cells |-> ExtCells(rowKeys, metadata)]]]]

ExtensionResponses ==
    {ExtResponse(<<ColN>>, <<R0, R1>>, <<>>),
     ExtResponse(<<ColN>>, <<R1>>, <<ExtEntity, ExtEntity>>),
     ExtResponse(<<ColA>>, <<R0>>, <<ExtEntity>>),
     ExtResponse(<<ColN>>, <<R0, R9, R1>>, <<>>),
     ExtResponse(<<ColN, ColM>>, <<R0>>, <<ExtEntity>>)}

OtherParams ==
    {<<>>,
     [date_column_name |-> ColB],
     [decimal_format |-> <<"c">>],
     [date_column_name |-> EmptyStr, decimal_format |-> <<"c">>],
     [date_column_name |-> ColB, decimal_format |-> <<"c">>]}

ExtendCalls ==
    {[column_name |-> ColA, extender_id |-> "reconciledColumnExt",
      properties |-> <<<<"i", "d">>>>, other_params |-> <<>>, outcome |-> o] :
        o \in {TransportError} \cup {Body(x) : x \in ExtensionResponses}}
    \cup {[column_name |-> ColA, extender_id |-> "meteoPropertiesOpenMeteo",
           properties |-> <<<<"t">>>>, other_params |-> p,
           outcome |-> Body(ExtResponse(<<ColN>>, <<R0, R1>>, <<>>))] : p \in OtherParams}
    \cup {[column_name |-> ColA, extender_id |-> "wikidataPropertySPARQL",
           properties |-> <<<<"i", "d">>>>, other_params |-> <<>>,
           outcome |-> TransportError]}

(***************************************************************************)
(* The state machine: a caller that holds a table document and calls       *)
(* reconcile, extend_column and _restructure_payload on it, going on with  *)
(* the returned table when there is one.                                   *)
(***************************************************************************)
Init ==
    /\ doc \in InitTables
    /\ before = NoneVal
    /\ inp = NoneVal
    /\ op = [name |-> "init"]
    /\ merged = NoneVal
    /\ request = NoneVal
    /\ sent = FALSE
    /\ ret = NoneVal
    /\ backend = NoneVal
    /\ err = NoErr
    /\ nOps = 0
    /\ token = NoneVal
    /\ expiry = 0
    /\ now = 1
    /\ authOp = [name |-> "init"]
    /\ nAuth = 0
    /\ nTicks = 0

Finish(name, call, res) ==
    /\ before' = doc
    /\ inp' = res.inp
    /\ op' = [name |-> name, call |-> call, restructured |-> res.restructured]
    /\ merged' = res.merged
    /\ request' = res.request
    /\ sent' = res.sent
    /\ ret' = res.ret
    /\ backend' = res.backend
    /\ err' = res.err
    /\ doc' = IF res.ret # NoneVal THEN res.ret ELSE res.inp
    /\ nOps' = nOps + 1
    /\ UNCHANGED authVars

Reconcile ==
    /\ nOps < MaxOps
    /\ \E call \in ReconcileCalls :
          Finish("reconcile", call,
                 reconcile(doc, call.column_name, call.reconciliator_id,
                           call.optional_columns, call.outcome))

ExtendColumn ==
    /\ nOps < MaxOps
    /\ \E call \in ExtendCalls :
          Finish("extend_column", call,
                 extend_column(doc, call.column_name, call.extender_id, call.properties,
                               call.other_params, call.outcome))

\* _restructure_payload called once more on the table a reconcile returned
Restructure ==
    /\ nOps < MaxOps
    /\ op.name \in {"reconcile", "restructure"}
    /\ ret # NoneVal
    /\ ~RestructureRaises(doc)
    /\ Finish("restructure", [payload |-> doc],
              CallResult(NoneVal, FALSE, NoneVal, TRUE, _restructure_payload(doc),
                         _restructure_payload(doc), NoneVal, NoErr))

Next == Reconcile \/ ExtendColumn \/ Restructure

Spec == Init /\ [][Next]_vars

(***************************************************************************)
(* AuthManager: the token cache. A token is modelled by what jwt.decode    *)
(* makes of it: [decodable, claims], claims being the payload dict. The    *)
(* outcome of the sign-in POST is an input:                                *)
(*   connection  requests.post raises a RequestException that carries no   *)
(*               response (ConnectionError, Timeout)                       *)
(*   http        raise_for_status raises HTTPError, which carries the      *)
(*               response                                                  *)
(*   ok          the parsed JSON body                                      *)
(***************************************************************************)
\* time.time() + 3600
Lifetime == 3600

Jwt(claims) == [decodable |-> TRUE, claims |-> claims]
Undecodable == [decodable |-> FALSE, claims |-> <<>>]

\* the bodies a sign-in at time t is answered with: a token that expires before,
\* at or after t, a token without exp claim, a token jwt.decode rejects, and a
\* body without "token"
SignInBodies(t) ==
    {[token |-> Jwt([exp |-> e])] : e \in {t - 1, t, t + 1, t + Lifetime}}
    \cup {[token |-> Jwt(<<>>)], [token |-> Undecodable], <<>>}

SignInOutcomes(t) ==
    {[kind |-> "connection"], [kind |-> "http"]}
    \cup {[kind |-> "ok", body |-> b] : b \in SignInBodies(t)}

\* the manager's fields after the call and the exception that leaves it
AuthResult(tok, exp, e) == [token |-> tok, expiry |-> exp, raised |-> e]

\* the except branch prints e.response.status_code before it resets the
\* fields: e.response is None for an exception without response, the attribute
\* access raises AttributeError and the two assignments are not reached.
\* jwt.decode's DecodeError is no RequestException: it leaves after self.token
\* was assigned and before self.expiry is.
refresh_token(tok, exp, t, outcome) ==
    IF outcome.kind = "connection" THEN AuthResult(tok, exp, "AttributeError")
    ELSE IF outcome.kind = "http" THEN AuthResult(NoneVal, 0, NoErr)
    ELSE LET new == Get(outcome.body, "token", NoneVal)
         IN  IF new = NoneVal THEN AuthResult(NoneVal, t + Lifetime, NoErr)
             ELSE IF ~new.decodable THEN AuthResult(new, exp, "DecodeError")
             ELSE AuthResult(new, Get(new.claims, "exp", t + Lifetime), NoErr)

\* if self.token is None or time.time() >= self.expiry
NeedsRefresh(tok, exp, t) == tok = NoneVal \/ t >= exp

\* [posted, token, expiry, returned, raised]: whether the sign-in POST was made,
\* the fields afterwards, the value returned (NoneVal also when it raised)
get_token(tok, exp, t, outcome) ==
    IF NeedsRefresh(tok, exp, t)
    THEN LET r == refresh_token(tok, exp, t, outcome)
         IN  [posted |-> TRUE, token |-> r.token, expiry |-> r.expiry,
              returned |-> IF r.raised = NoErr THEN r.token ELSE NoneVal,
              raised |-> r.raised]
    ELSE [posted |-> FALSE, token |-> tok, expiry |-> exp, returned |-> tok,
          raised |-> NoErr]

AuthInit ==
    /\ doc = InitTable(<<>>, FALSE)
    /\ before = NoneVal
    /\ inp = NoneVal
    /\ op = [name |-> "init"]
    /\ merged = NoneVal
    /\ request = NoneVal
    /\ sent = FALSE
    /\ ret = NoneVal
    /\ backend = NoneVal
    /\ err = NoErr
    /\ nOps = 0
    /\ token = NoneVal
    /\ expiry = 0
    /\ now = 1
    /\ authOp = [name |-> "init"]
    /\ nAuth = 0
    /\ nTicks = 0

GetToken ==
    /\ nAuth < MaxAuthOps
    /\ \E outcome \in SignInOutcomes(now) :
          LET r == get_token(token, expiry, now, outcome)
          IN  /\ token' = r.token
              /\ expiry' = r.expiry
              /\ authOp' = [name |-> "get_token", outcome |-> outcome, at |-> now,
                            tokenBefore |-> token, expiryBefore |-> expiry,
                            posted |-> r.posted, returned |-> r.returned,
                            raised |-> r.raised]
    /\ nAuth' = nAuth + 1
    /\ UNCHANGED <<now, nTicks>>
    /\ UNCHANGED tableVars

\* time passes between two calls: a moment, or a token's default lifetime
Tick ==
    /\ nTicks < MaxTicks
    /\ \E d \in {1, Lifetime} : now' = now + d
    /\ nTicks' = nTicks + 1
    /\ UNCHANGED <<token, expiry, authOp, nAuth>>
    /\ UNCHANGED tableVars

AuthNext == GetToken \/ Tick

AuthSpec == AuthInit /\ [][AuthNext]_vars

(***************************************************************************)
(* Properties.                                                             *)
(***************************************************************************)
\* the cells whose annotation record exists and has annotated = true
AnnotatedTrue(d) ==
    {rc \in CellKeys(d) :
        /\ "annotationMeta" \in DOMAIN CellAt(d, rc)
        /\ "annotated" \in DOMAIN CellAt(d, rc).annotationMeta
        /\ CellAt(d, rc).annotationMeta.annotated}

LowestScores(d) == {CellAt(d, rc).annotationMeta.lowestScore : rc \in AnnotatedTrue(d)}

\* a call that returned a table and a backend payload
Composed == op.name \in {"reconcile", "extend_column"} /\ backend # NoneVal

\* C1: the backend payload's nCellsReconciliated is the number of cells, over all
\* rows and columns, whose annotation has annotated = true; a cell without an
\* annotation record is not counted.
C1_ComposeCountsAnnotatedCells ==
    Composed =>
        backend.tableInstance.nCellsReconciliated = Cardinality(AnnotatedTrue(ret))

\* an extension payload over two annotated cells, beside cells that have no
\* annotation record at all
C1_Witness ==
    /\ op.name = "extend_column"
    /\ backend # NoneVal
    /\ backend.tableInstance.nCellsReconciliated = 2
    /\ \E rc \in CellKeys(ret) : "annotationMeta" \notin DOMAIN CellAt(ret, rc)

\* C2: the backend payload's minMetaScore and maxMetaScore are the least and the
\* greatest lowestScore of the annotated cells (so every annotated cell's
\* lowestScore lies between them), and are 0 and 1 when no cell is annotated.
C2_ComposeScoreBounds ==
    Composed =>
        IF AnnotatedTrue(ret) = {}
        THEN /\ backend.tableInstance.minMetaScore = 0
             /\ backend.tableInstance.maxMetaScore = 1
        ELSE /\ backend.tableInstance.minMetaScore \in LowestScores(ret)
             /\ backend.tableInstance.maxMetaScore \in LowestScores(ret)
             /\ \A x \in LowestScores(ret) :
                   /\ backend.tableInstance.minMetaScore <= x
                   /\ x <= backend.tableInstance.maxMetaScore

\* a payload whose annotated cells have different scores
C2_Witness ==
    /\ Composed
    /\ Cardinality(LowestScores(ret)) >= 2
    /\ backend.tableInstance.minMetaScore < backend.tableInstance.maxMetaScore

\* C3: in the table every merge returns, table.nCellsReconciliated is the number
\* of cells of the whole document whose annotation has annotated = true.
C3_TableCountAfterEveryMerge ==
    (op.name \in {"reconcile", "extend_column"} /\ ret # NoneVal) =>
        ret.table.nCellsReconciliated = Cardinality(AnnotatedTrue(ret))

\* C4: in the table every merge returns, table.minMetaScore and
\* table.maxMetaScore are the least and the greatest lowestScore of the annotated
\* cells of that table, or 0 and 1 when none is annotated.
C4_TableScoreBoundsAfterEveryMerge ==
    (op.name \in {"reconcile", "extend_column"} /\ ret # NoneVal) =>
        IF AnnotatedTrue(ret) = {}
        THEN ret.table.minMetaScore = 0 /\ ret.table.maxMetaScore = 1
        ELSE /\ ret.table.minMetaScore \in LowestScores(ret)
             /\ ret.table.maxMetaScore \in LowestScores(ret)
             /\ \A x \in LowestScores(ret) :
                   ret.table.minMetaScore <= x /\ x <= ret.table.maxMetaScore

\* C5: a second restructure pass leaves every reconciliated column's entity list
\* as the first pass made it.
C5_RestructureIdempotentOnColumns ==
    op.name = "restructure" =>
        \A c \in reconciliated_columns(before) :
            ret.columns.val[c].metadata[1].entity
                = before.columns.val[c].metadata[1].entity

\* a reconcile call that built its request
BuiltReconciliationRequest == op.name = "reconcile" /\ request # NoneVal

\* C6: the reconciliation request of an N-row table has N+1 items: item 0 has
\* id and label equal to the column name, and item i is
\* {id: "<row_id>$<columnName>", label: the row's cell label} for the i-th row in
\* the table's row order.
C6_ReconciliationRequestItems ==
    BuiltReconciliationRequest =>
        LET column_name == op.call.column_name
            keys == before.rows.keys
        IN  /\ Len(request.items) = Len(keys) + 1
            /\ request.items[1] = [id |-> column_name, label |-> column_name]
            /\ \A i \in 1..Len(keys) :
                  /\ request.items[i + 1].id = keys[i] \o <<"$">> \o column_name
                  /\ request.items[i + 1].label
                        = before.rows.val[keys[i]].cells[column_name].label

\* a request built for a table whose rows were inserted as r1, r0
C6_Witness ==
    /\ BuiltReconciliationRequest
    /\ before.rows.keys = <<R1, R0>>
    /\ Len(request.items) = 3
    /\ request.items[2].id = <<"r", "1", "$", "A">>

\* the cell-level items of the answer of the last reconcile call
CellLevelItems ==
    {i \in DOMAIN op.call.outcome.body :
        op.call.outcome.body[i].id # op.call.column_name}

\* the rows of `before` whose cell of the reconciled column the answer addresses
AnsweredRows ==
    {r \in DOMAIN before.rows.val :
        \E i \in CellLevelItems :
            op.call.outcome.body[i].id = r \o <<"$">> \o op.call.column_name}

\* a reconcile call whose merge stage ran to its end
MergedReconciliation == op.name = "reconcile" /\ merged # NoneVal

\* C7: after _compose_reconciled_table, a cell of the reconciled column that no
\* response item addresses is as it was (metadata and annotation unchanged, so
\* still unannotated), and table.nCellsReconciliated counts the cell-level items
\* only: the unanswered cells add nothing, and when no cell is answered twice it
\* is the number of cells that received an item.
C7_UnansweredCellsUntouched ==
    MergedReconciliation =>
        LET column_name == op.call.column_name
        IN  /\ \A r \in (DOMAIN before.rows.val) \ AnsweredRows :
                  /\ merged.rows.val[r].cells[column_name]
                        = before.rows.val[r].cells[column_name]
                  /\ (<<r, column_name>> \notin AnnotatedTrue(before)
                      => <<r, column_name>> \notin AnnotatedTrue(merged))
            /\ merged.table.nCellsReconciliated = Cardinality(CellLevelItems)
            /\ (Cardinality(CellLevelItems) = Cardinality(AnsweredRows)
                => merged.table.nCellsReconciliated = Cardinality(AnsweredRows))

\* the example of the specification: two rows, one response item for r0
C7_Witness ==
    /\ MergedReconciliation
    /\ op.call.outcome.body
          = <<[id |-> ColA, metadata |-> <<>>],
              [id |-> <<"r", "0", "$", "A">>, metadata |-> <<EntParis>>]>>
    /\ DOMAIN before.rows.val = {R0, R1}
    /\ merged.table.nCellsReconciliated = 1
    /\ merged.rows.val[R0].cells[ColA].annotationMeta.lowestScore = 2
    /\ <<R1, ColA>> \notin AnnotatedTrue(merged)
    /\ merged.columns.val[ColA].context.georss.total = 1

\* an extend_column call for reconciledColumnExt that built its request
BuiltReconciledRequest ==
    /\ op.name = "extend_column"
    /\ op.call.extender_id = "reconciledColumnExt"
    /\ request # NoneVal

\* C8: in the reconciledColumnExt request, items (the map under the column name)
\* has an entry for a row exactly when that row's source cell has a non-empty
\* metadata list, the entry being the id of the cell's first metadata entity; the
\* column map has an entry for every row.
C8_ReconciledItemsOnlyForResolvedRows ==
    BuiltReconciledRequest =>
        LET column_name == op.call.column_name
            items == request.items[column_name]
        IN  /\ DOMAIN request.items = {column_name}
            /\ \A r \in DOMAIN before.rows.val :
                  LET cell == before.rows.val[r].cells[column_name]
                  IN  /\ r \in DOMAIN items
                         <=> ("metadata" \in DOMAIN cell /\ cell.metadata # <<>>)
                      /\ r \in DOMAIN items => items[r] = cell.metadata[1].id
            /\ DOMAIN request.column = DOMAIN before.rows.val

\* r0 resolved and r1 not: items holds r0 only
C8_Witness ==
    /\ BuiltReconciledRequest
    /\ DOMAIN before.rows.val = {R0, R1}
    /\ before.rows.val[R0].cells[ColA].metadata # <<>>
    /\ before.rows.val[R1].cells[ColA].metadata = <<>>
    /\ DOMAIN request.items[ColA] = {R0}
    /\ DOMAIN request.column = {R0, R1}

\* the URI the claim gives an entity id
ClaimedUri(id) ==
    IF Len(id) >= 7 /\ SubSeq(id, 1, 7) = <<"g", "e", "o", "r", "s", "s", ":">>
    THEN MapsPlacePrefix \o SubSeq(id, 8, Len(id))
    ELSE <<>>

\* C9: after restructuring, the URI of every reshaped entity, column-level and
\* cell-level, is the maps prefix followed by the rest of the id when the id
\* starts with "georss:", and is empty otherwise.
C9_UriIsPrefixPlusRestOfId ==
    (op.name = "reconcile" /\ ret # NoneVal) =>
        \A c \in reconciliated_columns(ret) :
            /\ \A i \in DOMAIN ret.columns.val[c].metadata[1].entity :
                  ret.columns.val[c].metadata[1].entity[i].name.uri
                     = ClaimedUri(ret.columns.val[c].metadata[1].entity[i].id)
            /\ \A r \in DOMAIN ret.rows.val :
                  c \in DOMAIN ret.rows.val[r].cells =>
                     \A i \in DOMAIN ret.rows.val[r].cells[c].metadata :
                        ret.rows.val[r].cells[c].metadata[i].name.uri
                           = ClaimedUri(ret.rows.val[r].cells[c].metadata[i].id)

\* an extend_column call for the time-indexed extender with date_column_name or
\* decimal_format absent from other_params
MeteoWithoutParams ==
    /\ op.name = "extend_column"
    /\ op.call.extender_id = "meteoPropertiesOpenMeteo"
    /\ \/ "date_column_name" \notin DOMAIN op.call.other_params
       \/ "decimal_format" \notin DOMAIN op.call.other_params

\* C10: such a call raises the configuration error (ValueError) before a request
\* is built or sent, returns nothing, and leaves the table passed in as it was.
C10_MeteoRequiresBothParams ==
    MeteoWithoutParams =>
        /\ err = "ValueError"
        /\ request = NoneVal
        /\ ~sent
        /\ ret = NoneVal
        /\ backend = NoneVal
        /\ inp = before

\* decimal_format alone is missing, on a table the builder would have accepted
C10_Witness ==
    /\ MeteoWithoutParams
    /\ "date_column_name" \in DOMAIN op.call.other_params
    /\ \A r \in DOMAIN before.rows.val : HasMetadata(before.rows.val[r].cells[ColA])
    /\ err = "ValueError"
    /\ inp = before

\* a call that names a service outside the supported set
UnsupportedCall ==
    \/ /\ op.name = "reconcile"
       /\ op.call.reconciliator_id \notin {"geocodingHere", "geocodingGeonames", "geonames"}
    \/ /\ op.name = "extend_column"
       /\ op.call.extender_id \notin {"reconciledColumnExt", "meteoPropertiesOpenMeteo"}

\* C11: a reconcile or extend_column call with a service id outside the
\* supported set raises the error (ValueError) before a request is built or
\* posted, returns nothing, and leaves the table passed in as it was.
C11_UnsupportedServiceRejected ==
    UnsupportedCall =>
        /\ err = "ValueError"
        /\ request = NoneVal
        /\ ~sent
        /\ merged = NoneVal
        /\ ret = NoneVal
        /\ backend = NoneVal
        /\ inp = before

\* an unsupported reconciliator named for a table that already holds a
\* reconciled column
C11_Witness ==
    /\ UnsupportedCall
    /\ op.name = "reconcile"
    /\ op.call.reconciliator_id = "wikidata"
    /\ reconciliated_columns(before) # {}
    /\ err = "ValueError"
    /\ ~sent
    /\ inp = before

\* a reconcile call whose request was answered (the POST did not fail)
AnsweredReconciliation ==
    /\ op.name = "reconcile"
    /\ sent
    /\ ~op.call.outcome.failed

\* the positions of '$' in an item id
DollarPositions(id) == {i \in DOMAIN id : id[i] = "$"}

\* the answer has no item for the column, or a cell-level item whose id has not
\* exactly one '$', or whose part before the '$' names no row of the table
MalformedAnswer(body, column_name, table) ==
    \/ \A i \in DOMAIN body : body[i].id # column_name
    \/ \E i \in DOMAIN body :
          /\ body[i].id # column_name
          /\ \/ Cardinality(DollarPositions(body[i].id)) # 1
             \/ \E p \in DollarPositions(body[i].id) :
                   SubSeq(body[i].id, 1, p - 1) \notin DOMAIN table.rows.val

\* C12: on such an answer _compose_reconciled_table raises instead of skipping
\* the item, and reconcile returns no merged table and no backend payload; the
\* exception leaves reconcile whenever the merge was entered (the answer is not
\* the empty list).
C12_MalformedResponseAborts ==
    (AnsweredReconciliation
       /\ MalformedAnswer(op.call.outcome.body, op.call.column_name, before)) =>
        /\ _compose_reconciled_table(before, op.call.outcome.body,
                                     op.call.column_name).err
              \in {"StopIteration", "ValueError", "KeyError"}
        /\ op.call.outcome.body # <<>> =>
              err \in {"StopIteration", "ValueError", "KeyError"}
        /\ merged = NoneVal
        /\ ret = NoneVal
        /\ backend = NoneVal

\* a well-formed item for r0 followed by an item for a row the table lacks
C12_Witness ==
    /\ AnsweredReconciliation
    /\ Len(op.call.outcome.body) = 3
    /\ op.call.outcome.body[2].id = <<"r", "0", "$", "A">>
    /\ op.call.outcome.body[3].id = <<"r", "9", "$", "A">>
    /\ R0 \in DOMAIN before.rows.val
    /\ err = "KeyError"
    /\ ret = NoneVal

\* a call whose merge stage raised partway through the answer
MergeFailed ==
    /\ op.name \in {"reconcile", "extend_column"}
    /\ sent
    /\ ~op.call.outcome.failed
    /\ merged = NoneVal
    /\ err # NoErr

\* C13: when a merge raises partway through the answer, the table document the
\* caller passed in equals its value before the call: no partial annotation, no
\* partially added column or cell.
C13_FailedMergeLeavesTableUnchanged ==
    MergeFailed => inp = before

\* a call whose request was posted and whose POST failed
ExternalCallFailed ==
    /\ op.name \in {"reconcile", "extend_column"}
    /\ sent
    /\ op.call.outcome.failed

\* C14: when the external call fails, no merge, restructure or compose runs, no
\* table and no backend payload is returned and the table passed in is as it
\* was; reconcile reports it by returning (None, None), extend_column by letting
\* the exception of the POST through.
C14_ExternalFailureYieldsNothing ==
    ExternalCallFailed =>
        /\ merged = NoneVal
        /\ ~op.restructured
        /\ ret = NoneVal
        /\ backend = NoneVal
        /\ inp = before
        /\ op.name = "reconcile" => err = NoErr
        /\ op.name = "extend_column" => err = "RequestException"

\* the POST of a reconcile call fails after an earlier call had succeeded
C14_Witness ==
    /\ ExternalCallFailed
    /\ op.name = "reconcile"
    /\ nOps = 2
    /\ reconciliated_columns(before) # {}
    /\ ret = NoneVal
    /\ backend = NoneVal
    /\ err = NoErr

\* the identifiers of `old` as they appear in `new`: same rows in the same
\* order, every column of `old` under its key with its id, every cell of `old`
\* with its id
IdsKept(old, new) ==
    /\ new.rows.keys = old.rows.keys
    /\ DOMAIN new.rows.val = DOMAIN old.rows.val
    /\ \A r \in DOMAIN old.rows.val : new.rows.val[r].id = old.rows.val[r].id
    /\ \A c \in DOMAIN old.columns.val :
          /\ c \in DOMAIN new.columns.val
          /\ \E i \in DOMAIN new.columns.keys : new.columns.keys[i] = c
          /\ new.columns.val[c].id = old.columns.val[c].id
    /\ \A rc \in CellKeys(old) :
          /\ rc \in CellKeys(new)
          /\ CellAt(new, rc).id = CellAt(old, rc).id

\* the column keys `new` has and `old` has not
AddedColumns(old, new) == (DOMAIN new.columns.val) \ (DOMAIN old.columns.val)

\* C15: whatever a call leaves behind (the table passed in, the merged table,
\* the returned table, the backend payload) keeps the row ids and their order,
\* the pre-existing column ids under their keys and the pre-existing cell ids;
\* only an extension adds columns, and only those its answer names.
C15_IdentifiersStable ==
    op.name \in {"reconcile", "extend_column", "restructure"} =>
        /\ IdsKept(before, inp)
        /\ merged # NoneVal => IdsKept(before, merged)
        /\ ret # NoneVal => IdsKept(before, ret)
        /\ backend # NoneVal =>
              /\ backend.rows.allIds = before.rows.keys
              /\ IdsKept(before, [rows |-> [keys |-> backend.rows.allIds,
                                            val |-> backend.rows.byId],
                                  columns |-> [keys |-> backend.columns.allIds,
                                               val |-> backend.columns.byId]])
        /\ AddedColumns(before, inp)
              \subseteq (IF op.name = "extend_column" /\ ~op.call.outcome.failed
                         THEN Range(op.call.outcome.body.columns.keys) ELSE {})
        /\ ret # NoneVal => AddedColumns(inp, ret) = {}

\* an extension whose answer overwrites a cell of an existing column, on a
\* table whose rows were inserted as r1, r0
C15_Witness ==
    /\ op.name = "extend_column"
    /\ ret # NoneVal
    /\ before.rows.keys = <<R1, R0>>
    /\ ColA \in Range(op.call.outcome.body.columns.keys)
    /\ ret.rows.val[R0].cells[ColA] # before.rows.val[R0].cells[ColA]
    /\ ret.rows.val[R0].cells[ColA].id = before.rows.val[R0].cells[ColA].id
    /\ ret.rows.keys = <<R1, R0>>

\* a reconcile or extend_column call that returned a table
ReturnedTable == op.name \in {"reconcile", "extend_column"} /\ ret # NoneVal

\* C16: after a successful reconcile or extend_column the table document the
\* caller passed in is unchanged by the call (the returned table is a value of
\* its own).
C16_InputTableUnchangedOnSuccess ==
    ReturnedTable => inp = before

\* a reconcile call for a two-part service with fewer than two optional columns
TwoPartWithoutBothColumns ==
    /\ op.name = "reconcile"
    /\ op.call.reconciliator_id \in {"geocodingHere", "geocodingGeonames"}
    /\ Len(op.call.optional_columns) < 2

\* C17: such a call fails with an error while the request is built, whatever the
\* table (an empty one too), so that no request is built or posted.
C17_TwoPartNeedsTwoColumns ==
    TwoPartWithoutBothColumns =>
        /\ err # NoErr
        /\ request = NoneVal
        /\ ~sent

\* C18: a reconcile call that returns a table has built its request from the
\* table passed in, posted it, merged the answer into that table, restructured
\* the merged table and composed the backend payload from the restructured
\* table; an extend_column call that returns a table has built, posted, merged
\* and composed from the merged table, with no restructure pass in between.
C18_StageOrder ==
    /\ (op.name = "reconcile" /\ ret # NoneVal) =>
          /\ request = _prepare_input_data(before, op.call.column_name,
                                           op.call.reconciliator_id,
                                           op.call.optional_columns).val
          /\ sent
          /\ merged = _compose_reconciled_table(before, op.call.outcome.body,
                                                op.call.column_name).val
          /\ merged.columns.val[op.call.column_name].kind = "entity"
          /\ op.restructured
          /\ ret = _restructure_payload(merged)
          /\ "kind" \notin DOMAIN ret.columns.val[op.call.column_name]
          /\ backend = _create_backend_payload(ret)
          /\ backend.columns.byId = ret.columns.val
          /\ backend.rows.byId = ret.rows.val
    /\ (op.name = "extend_column" /\ ret # NoneVal) =>
          /\ request = ExtensionInput(before, op.call.column_name, op.call.extender_id,
                                      op.call.properties, op.call.other_params).val
          /\ sent
          /\ merged = _compose_extension_table(before, op.call.outcome.body).val
          /\ ~op.restructured
          /\ ret = merged
          /\ backend = _create_backend_payload(merged)
          /\ \A c \in reconciliated_columns(before) :
                c \notin Range(op.call.outcome.body.columns.keys)
                   => ret.columns.val[c] = before.columns.val[c]

\* a reconcile whose restructure pass changed the merged column and cells, the
\* backend payload showing the restructured ones
C18_Witness ==
    /\ op.name = "reconcile"
    /\ ret # NoneVal
    /\ op.restructured
    /\ merged.columns.val[ColA].status = "reconciliated"
    /\ ret.columns.val[ColA] # merged.columns.val[ColA]
    /\ ret.rows.val # merged.rows.val
    /\ backend.columns.byId[ColA] = ret.columns.val[ColA]
    /\ backend.rows.byId = ret.rows.val
    /\ backend.rows.byId # merged.rows.val

\* C19: in the table _compose_reconciled_table returns, the reconciled column has
\* status reconciliated, kind entity, the metadata list of the (first) response
\* item whose id is the column name, context total and reconciliated both
\* len(response) - 1, and the fixed annotation {annotated: true, match: {value:
\* true}, lowestScore: 1, highestScore: 1}; every other column is as it was.
C19_MergedColumnFields ==
    MergedReconciliation =>
        LET column_name == op.call.column_name
            body == op.call.outcome.body
            column == merged.columns.val[column_name]
        IN  /\ column.status = "reconciliated"
            /\ column.kind = "entity"
            /\ \E i \in DOMAIN body :
                  /\ body[i].id = column_name
                  /\ \A j \in 1..(i - 1) : body[j].id # column_name
                  /\ column.metadata = body[i].metadata
            /\ column.context.georss.total = Len(body) - 1
            /\ column.context.georss.reconciliated = Len(body) - 1
            /\ column.annotationMeta
                  = [annotated |-> TRUE, match |-> [value |-> TRUE],
                     lowestScore |-> 1, highestScore |-> 1]
            /\ merged.columns.keys = before.columns.keys
            /\ \A c \in (DOMAIN before.columns.val) \ {column_name} :
                  merged.columns.val[c] = before.columns.val[c]

\* the second column is reconciled with two cell-level items while the first,
\* reconciled and restructured earlier, stays as it was
C19_Witness ==
    /\ MergedReconciliation
    /\ op.call.column_name = ColB
    /\ Len(op.call.outcome.body) = 3
    /\ before.columns.val[ColA].status = "reconciliated"
    /\ before.columns.val[ColB].status = "empty"
    /\ merged.columns.val[ColB].status = "reconciliated"
    /\ merged.columns.val[ColB].context.georss.total = 2
    /\ merged.columns.val[ColB].metadata = <<EntGeo, EntGeoTwice, EntInner>>
    /\ merged.columns.val[ColA] = before.columns.val[ColA]

\* the cell-level items of the last answer that address cell rc ("<row>$<cell>")
ItemsFor(rc) ==
    {i \in CellLevelItems : op.call.outcome.body[i].id = rc[1] \o <<"$">> \o rc[2]}

\* C20: in the table _compose_reconciled_table returns, every cell a cell-level
\* item addresses holds a metadata list of exactly one entity, the first
\* metadata entity of the (last) item that addresses it, and the annotation
\* {annotated: true, match: {value: entity.match}, lowestScore: entity.score,
\* highestScore: entity.score}; every item addresses a cell; and a cell no item
\* addresses is as it was. So every annotated cell of the table the caller goes
\* on with has a metadata list of length 1.
C20_MergedCellSingleEntity ==
    /\ \A rc \in AnnotatedTrue(doc) : Len(CellAt(doc, rc).metadata) = 1
    /\ MergedReconciliation =>
        LET body == op.call.outcome.body
        IN  /\ \A i \in CellLevelItems : \E rc \in CellKeys(merged) : i \in ItemsFor(rc)
            /\ \A rc \in CellKeys(merged) :
                  IF ItemsFor(rc) = {}
                  THEN CellAt(merged, rc) = CellAt(before, rc)
                  ELSE LET entity == body[Max(ItemsFor(rc))].metadata[1]
                           cell == CellAt(merged, rc)
                       IN  /\ Len(cell.metadata) = 1
                           /\ cell.metadata[1] = entity
                           /\ cell.annotationMeta
                                 = [annotated |-> TRUE,
                                    match |-> [value |-> entity.match],
                                    lowestScore |-> entity.score,
                                    highestScore |-> entity.score]
                           /\ cell.id = CellAt(before, rc).id
                           /\ cell.label = CellAt(before, rc).label

\* an item that carries two candidates: the cell keeps the first only, with its
\* match flag (false) and score
C20_Witness ==
    /\ MergedReconciliation
    /\ \E i \in CellLevelItems :
          /\ op.call.outcome.body[i].id = <<"r", "1", "$", "A">>
          /\ op.call.outcome.body[i].metadata = <<EntGeo, EntParis>>
    /\ merged.rows.val[R1].cells[ColA].metadata = <<EntGeo>>
    /\ merged.rows.val[R1].cells[ColA].annotationMeta.match.value = FALSE
    /\ merged.rows.val[R1].cells[ColA].annotationMeta.lowestScore = 3
    /\ \A rc \in AnnotatedTrue(merged) : Len(CellAt(merged, rc).metadata) = 1

\* a restructure pass has run to its end: inside a reconcile that returned a
\* table, or on its own
Restructured ==
    /\ op.name \in {"reconcile", "restructure"}
    /\ op.restructured
    /\ ret # NoneVal

\* the rows whose cell of column c has a non-empty metadata list
RowsWithMetadata(d, c) ==
    {r \in DOMAIN d.rows.val :
        /\ c \in DOMAIN d.rows.val[r].cells
        /\ "metadata" \in DOMAIN d.rows.val[r].cells[c]
        /\ d.rows.val[r].cells[c].metadata # <<>>}

\* the score of the first metadata entity of those cells
FirstScores(d, c) ==
    {d.rows.val[r].cells[c].metadata[1].score : r \in RowsWithMetadata(d, c)}

\* C21: after a restructure pass, every reconciliated column's annotation has
\* lowestScore and highestScore equal to the least and the greatest first-entity
\* score over the cells of that column with non-empty metadata, or 0 and 0 when
\* there is no such cell; so every annotated cell's score of the column lies
\* within the column's bounds.
C21_ColumnScoreBounds ==
    Restructured =>
        \A c \in reconciliated_columns(ret) :
            LET a == ret.columns.val[c].annotationMeta
                S == FirstScores(ret, c)
            IN  /\ IF S = {}
                   THEN a.lowestScore = 0 /\ a.highestScore = 0
                   ELSE /\ a.lowestScore \in S
                        /\ a.highestScore \in S
                        /\ \A x \in S : a.lowestScore <= x /\ x <= a.highestScore
                /\ \A rc \in AnnotatedTrue(ret) :
                      rc[2] = c =>
                         /\ a.lowestScore <= CellAt(ret, rc).annotationMeta.lowestScore
                         /\ CellAt(ret, rc).annotationMeta.highestScore <= a.highestScore

\* two cells of the column annotated with scores 2 and 3: the bounds are 2 and 3
\* and no longer the 1 and 1 the merge wrote
C21_Witness ==
    /\ op.name = "reconcile"
    /\ Restructured
    /\ op.call.column_name = ColA
    /\ merged.columns.val[ColA].annotationMeta.lowestScore = 1
    /\ FirstScores(ret, ColA) = {2, 3}
    /\ ret.columns.val[ColA].annotationMeta.lowestScore = 2
    /\ ret.columns.val[ColA].annotationMeta.highestScore = 3

\* the table the last restructure pass was given: the merged table inside
\* reconcile, the caller's table when called on its own
RestructureInput == IF op.name = "reconcile" THEN merged ELSE before

\* entry `new` is entry `old` in the column shape {id, name: {value, uri}, score,
\* match, type}
ReshapedColumnEntry(old, new) ==
    /\ DOMAIN new = {"id", "name", "score", "match", "type"}
    /\ DOMAIN new.name = {"value", "uri"}
    /\ new.id = old.id
    /\ new.name.value = old.name
    /\ new.score = (IF "score" \in DOMAIN old THEN old.score ELSE 0)
    /\ new.match = (IF "match" \in DOMAIN old THEN old.match ELSE TRUE)
    /\ new.type = (IF "type" \in DOMAIN old THEN old.type ELSE <<>>)

\* C22: after a restructure pass, the metadata of every column that was
\* reconciliated is a list of one wrapper (id "None:", match true, score 0, empty
\* name and URI) whose entity list has the length and order of the metadata the
\* column had, each entry reshaped to {id, name: {value, uri}, score, match,
\* type}; the column has no kind field; every other column is as it was.
C22_ColumnWrapper ==
    Restructured =>
        /\ DOMAIN ret.columns.val = DOMAIN RestructureInput.columns.val
        /\ \A c \in DOMAIN ret.columns.val :
              LET old == RestructureInput.columns.val[c]
                  new == ret.columns.val[c]
              IN  IF c \in reconciliated_columns(RestructureInput)
                  THEN /\ Len(new.metadata) = 1
                       /\ new.metadata[1].id = <<"N", "o", "n", "e", ":">>
                       /\ new.metadata[1].match = TRUE
                       /\ new.metadata[1].score = 0
                       /\ new.metadata[1].name = [value |-> <<>>, uri |-> <<>>]
                       /\ Len(new.metadata[1].entity) = Len(old.metadata)
                       /\ \A i \in DOMAIN old.metadata :
                             ReshapedColumnEntry(old.metadata[i], new.metadata[1].entity[i])
                       /\ "kind" \notin DOMAIN new
                       /\ new.status = "reconciliated"
                  ELSE new = old

\* a column merged with three candidates and kind entity, beside a column that
\* is not reconciliated
C22_Witness ==
    /\ op.name = "reconcile"
    /\ Restructured
    /\ op.call.column_name = ColA
    /\ merged.columns.val[ColA].metadata = <<EntGeo, EntGeoTwice, EntInner>>
    /\ merged.columns.val[ColA].kind = "entity"
    /\ Len(ret.columns.val[ColA].metadata) = 1
    /\ Len(ret.columns.val[ColA].metadata[1].entity) = 3
    /\ ret.columns.val[ColA].metadata[1].entity[2].id = IdGeoTwice
    /\ "kind" \notin DOMAIN ret.columns.val[ColA]
    /\ ret.columns.val[ColB].status = "empty"

\* entry `new` is entry `old` in the cell shape {id, name: {value, uri},
\* feature, score, match, type}
ReshapedCellEntry(old, new) ==
    /\ DOMAIN new = {"id", "name", "feature", "score", "match", "type"}
    /\ DOMAIN new.name = {"value", "uri"}
    /\ new.id = old.id
    /\ new.name.value = old.name
    /\ new.feature = (IF "feature" \in DOMAIN old THEN old.feature ELSE <<>>)
    /\ new.score = (IF "score" \in DOMAIN old THEN old.score ELSE 0)
    /\ new.match = (IF "match" \in DOMAIN old THEN old.match ELSE TRUE)
    /\ new.type = (IF "type" \in DOMAIN old THEN old.type ELSE <<>>)

\* C23: after a restructure pass, a cell under a reconciliated column whose
\* metadata list was not empty has a list of the same length and order, each
\* entry reshaped and no placeholder in front; its annotation, when it has one,
\* has match {value: true, reason: "reconciliator"} and lowestScore and
\* highestScore equal to the first reshaped entry's score; id and label are
\* kept. A cell under a column that is not reconciliated is as it was.
C23_CellEntriesReshaped ==
    Restructured =>
        /\ CellKeys(ret) = CellKeys(RestructureInput)
        /\ \A rc \in CellKeys(ret) :
              LET old == CellAt(RestructureInput, rc)
                  new == CellAt(ret, rc)
              IN  IF rc[2] \notin reconciliated_columns(RestructureInput)
                  THEN new = old
                  ELSE /\ new.id = old.id
                       /\ new.label = old.label
                       /\ ("metadata" \in DOMAIN old /\ old.metadata # <<>>) =>
                             /\ Len(new.metadata) = Len(old.metadata)
                             /\ \A i \in DOMAIN old.metadata :
                                   ReshapedCellEntry(old.metadata[i], new.metadata[i])
                             /\ ("annotationMeta" \in DOMAIN new)
                                   = ("annotationMeta" \in DOMAIN old)
                             /\ "annotationMeta" \in DOMAIN old =>
                                   /\ new.annotationMeta.match
                                         = [value |-> TRUE, reason |-> "reconciliator"]
                                   /\ new.annotationMeta.lowestScore = new.metadata[1].score
                                   /\ new.annotationMeta.highestScore = new.metadata[1].score
                                   /\ new.annotationMeta.annotated
                                         = old.annotationMeta.annotated

\* a cell merged with a candidate whose match flag is false and score 3: one
\* reshaped entry, the annotation's match now true with a reason
C23_Witness ==
    /\ op.name = "reconcile"
    /\ Restructured
    /\ op.call.column_name = ColA
    /\ R1 \in DOMAIN merged.rows.val
    /\ merged.rows.val[R1].cells[ColA].metadata = <<EntGeo>>
    /\ merged.rows.val[R1].cells[ColA].annotationMeta.match = [value |-> FALSE]
    /\ Len(ret.rows.val[R1].cells[ColA].metadata) = 1
    /\ ret.rows.val[R1].cells[ColA].metadata[1].match = FALSE
    /\ ret.rows.val[R1].cells[ColA].annotationMeta.match.value = TRUE
    /\ ret.rows.val[R1].cells[ColA].annotationMeta.lowestScore = 3
    /\ ret.rows.val[R1].cells[ColB] = merged.rows.val[R1].cells[ColB]

\* an extend_column call whose request was answered
AnsweredExtension ==
    /\ op.name = "extend_column"
    /\ sent
    /\ ~op.call.outcome.failed

\* the answer names a row the table does not have
NamesUnknownRow(body, table) ==
    \E n \in DOMAIN body.columns.val :
        \E r \in DOMAIN body.columns.val[n].cells.val : r \notin DOMAIN table.rows.val

\* C24: an extension answer whose rows all exist is merged so that every column
\* it names has id = its name, the answer's label, status extended and empty
\* metadata, context and annotation; every cell it carries is {id:
\* "<row>$<column>", label, metadata} as in the answer; every other column and
\* every other cell is as it was. An answer that names an unknown row makes the
\* merge raise (KeyError) and no table is returned.
C24_ExtensionMerge ==
    AnsweredExtension =>
        LET columns == op.call.outcome.body.columns.val
        IN  IF NamesUnknownRow(op.call.outcome.body, before)
            THEN err = "KeyError" /\ ret = NoneVal /\ backend = NoneVal
            ELSE /\ err = NoErr
                 /\ DOMAIN ret.columns.val
                       = (DOMAIN before.columns.val) \cup (DOMAIN columns)
                 /\ \A n \in DOMAIN columns :
                       /\ ret.columns.val[n].id = n
                       /\ ret.columns.val[n].label = columns[n].label
                       /\ ret.columns.val[n].status = "extended"
                       /\ ret.columns.val[n].metadata = <<>>
                       /\ ret.columns.val[n].context = <<>>
                       /\ ret.columns.val[n].annotationMeta = <<>>
                 /\ \A c \in (DOMAIN before.columns.val) \ (DOMAIN columns) :
                       ret.columns.val[c] = before.columns.val[c]
                 /\ \A rc \in CellKeys(ret) :
                       IF rc[2] \in DOMAIN columns /\ rc[1] \in DOMAIN columns[rc[2]].cells.val
                       THEN CellAt(ret, rc)
                               = [id |-> rc[1] \o <<"$">> \o rc[2],
                                  label |-> columns[rc[2]].cells.val[rc[1]].label,
                                  metadata |-> columns[rc[2]].cells.val[rc[1]].metadata]
                       ELSE rc \in CellKeys(before) /\ CellAt(ret, rc) = CellAt(before, rc)
                 /\ \A n \in DOMAIN columns :
                       \A r \in DOMAIN columns[n].cells.val : <<r, n>> \in CellKeys(ret)
                 /\ CellKeys(before) \subseteq CellKeys(ret)

\* a new column with a two-entity cell for r1 only, beside a reconciled column
\* whose cells stay as they were
C24_Witness ==
    /\ AnsweredExtension
    /\ ret # NoneVal
    /\ DOMAIN before.rows.val = {R0, R1}
    /\ before.columns.val[ColA].status = "reconciliated"
    /\ ColN \notin DOMAIN before.columns.val
    /\ ret.columns.val[ColN].status = "extended"
    /\ ret.columns.val[ColN].label = <<"l", "N">>
    /\ ret.rows.val[R1].cells[ColN]
          = [id |-> <<"r", "1", "$", "N">>, label |-> <<"x", "r", "1">>,
             metadata |-> <<ExtEntity, ExtEntity>>]
    /\ ColN \notin DOMAIN ret.rows.val[R0].cells
    /\ ret.rows.val[R0].cells[ColA] = before.rows.val[R0].cells[ColA]

\* the sequence lists the set's elements, each once
ListsOnce(seq, S) == Range(seq) = S /\ Len(seq) = Cardinality(S)

\* the column names of the last extension answer that `table` did not have, in
\* the answer's order
NewNames(table) ==
    SelectSeq(op.call.outcome.body.columns.keys,
              LAMBDA n : n \notin DOMAIN table.columns.val)

\* C25: in every backend payload, rows.allIds and columns.allIds list the keys of
\* rows.byId and columns.byId, each once, in insertion order: the rows in the
\* order the table was loaded with, the columns in the order the table had them
\* followed by the columns an extension added in the order of its answer.
C25_AllIdsInsertionOrder ==
    Composed =>
        /\ ListsOnce(backend.rows.allIds, DOMAIN backend.rows.byId)
        /\ ListsOnce(backend.columns.allIds, DOMAIN backend.columns.byId)
        /\ backend.rows.allIds = before.rows.keys
        /\ backend.columns.allIds
              = (IF op.name = "extend_column"
                 THEN before.columns.keys \o NewNames(before)
                 ELSE before.columns.keys)

\* rows loaded as r1, r0 and columns N, M added in that order: neither list is
\* sorted
C25_Witness ==
    /\ Composed
    /\ op.name = "extend_column"
    /\ backend.rows.allIds = <<R1, R0>>
    /\ backend.columns.allIds = <<ColA, ColB, ColN, ColM>>
    /\ DOMAIN backend.columns.byId = {ColA, ColB, ColN, ColM}

\* an extend_column call for the time-indexed extender with both parameters given
MeteoWithParams ==
    /\ op.name = "extend_column"
    /\ op.call.extender_id = "meteoPropertiesOpenMeteo"
    /\ {"date_column_name", "decimal_format"} \subseteq DOMAIN op.call.other_params
    /\ op.call.other_params.date_column_name # <<>>
    /\ op.call.other_params.decimal_format # <<>>

\* the request has the shape the time-indexed extender is sent for `table`
MeteoRequestShape(table) ==
    /\ DOMAIN request.dates = DOMAIN table.rows.val
    /\ \A r \in DOMAIN table.rows.val :
          request.dates[r]
             = <<table.rows.val[r].cells[op.call.other_params.date_column_name].label,
                 <<>>, op.call.other_params.date_column_name>>
    /\ DOMAIN request.items = {op.call.column_name}
    /\ request.weatherParams = op.call.properties
    /\ request.decimalFormat = <<op.call.other_params.decimal_format>>

\* C26: for every table the builder of the time-indexed extender returns a
\* request with dates [date_label, [], date_column_name] per row, items as the
\* one-key map under the column name, weatherParams = the properties and a
\* one-element decimalFormat, also when a row's source cell has no metadata.
C26_MeteoRequestForEveryTable ==
    MeteoWithParams =>
        /\ err = NoErr
        /\ request # NoneVal
        /\ MeteoRequestShape(before)

\* the sign-in of the last get_token call was attempted and failed
SignInFailed ==
    /\ authOp.name = "get_token"
    /\ authOp.posted
    /\ authOp.outcome.kind \in {"connection", "http"}

\* C27: get_token posts a sign-in exactly when no token is cached or the clock
\* is at or past the cached expiry, and otherwise returns the cached token; after
\* a failed sign-in the token is None and the expiry is 0, so that the next call
\* signs in again; and a token that get_token returns has an expiry that has not
\* passed.
C27_TokenCache ==
    authOp.name = "get_token" =>
        /\ authOp.posted
              <=> (authOp.tokenBefore = NoneVal \/ authOp.at >= authOp.expiryBefore)
        /\ ~authOp.posted =>
              /\ authOp.returned = authOp.tokenBefore
              /\ authOp.raised = NoErr
              /\ token = authOp.tokenBefore
              /\ expiry = authOp.expiryBefore
        /\ SignInFailed =>
              /\ token = NoneVal
              /\ expiry = 0
              /\ NeedsRefresh(token, expiry, now)
        /\ authOp.returned # NoneVal => authOp.at < expiry

\* a reconcile call that returned a table which had, before the call, a
\* reconciled column other than the one now reconciled
SecondReconciliation ==
    /\ op.name = "reconcile"
    /\ ret # NoneVal
    /\ reconciliated_columns(before) \ {op.call.column_name} # {}

\* C28: a reconcile of another column leaves every column reconciled earlier as
\* the earlier call returned it: its column metadata, and the metadata entries
\* and the annotation of each of its cells.
C28_EarlierColumnUntouched ==
    SecondReconciliation =>
        \A c \in reconciliated_columns(before) \ {op.call.column_name} :
            /\ ret.columns.val[c].metadata = before.columns.val[c].metadata
            /\ \A r \in DOMAIN before.rows.val :
                  /\ ret.rows.val[r].cells[c].metadata = before.rows.val[r].cells[c].metadata
                  /\ "annotationMeta" \in DOMAIN before.rows.val[r].cells[c] =>
                        ret.rows.val[r].cells[c].annotationMeta
                           = before.rows.val[r].cells[c].annotationMeta

\* an extend_column call that returned a table and a backend payload
ExtensionComposed == op.name = "extend_column" /\ backend # NoneVal

\* C29: the backend payload composed after an extension has the
\* nCellsReconciliated that the payload composed from the table before the merge
\* has, also when the answer names an existing reconciled column.
C29_ExtensionKeepsAnnotatedCount ==
    ExtensionComposed =>
        backend.tableInstance.nCellsReconciliated
           = Cardinality(AnnotatedTrue(before))


\* a reconcile call that returned a table and a backend payload
ReconcileReturnedTable == op.name = "reconcile" /\ ret # NoneVal /\ backend # NoneVal

\* C30: when reconcile returns a table, the backend payload's
\* nCellsReconciliated is the table's, and its columns.byId and rows.byId are
\* the table's columns and rows.
C30_AggregatesAgree ==
    ReconcileReturnedTable =>
        /\ backend.tableInstance.nCellsReconciliated = ret.table.nCellsReconciliated
        /\ backend.columns.byId = ret.columns.val
        /\ backend.rows.byId = ret.rows.val

====
